---- MODULE Spec2Model ----
(***************************************************************************)
(* Match scoring cache-and-compute engine of backend-nextgen:              *)
(* MatchingService (app/services/matching_service.py) over the "matches"   *)
(* table, with GeminiService as the primary scoring provider and           *)
(* GroqService as the fallback (app/services/gemini_service.py,            *)
(* app/services/groq_service.py).                                          *)
(*                                                                         *)
(* One ranking request runs as an asyncio coroutine.  Its only suspension  *)
(* point is the await of the provider call, which runs in an executor      *)
(* thread; the table reads and writes are synchronous.  A request          *)
(* therefore advances in steps: start .. first cache miss, the provider    *)
(* thread, resume .. next cache miss or the end.                           *)
(***************************************************************************)
EXTENDS Integers, Sequences, FiniteSets, TLC

VARIABLES matches, student_profiles, vacancies, skill_history, now, req, started, reply

vars == <<matches, student_profiles, vacancies, skill_history, now, req, started, reply>>

----------------------------------------------------------------------------
(* Bounds of the model *)

\* ranking requests started in one behaviour
MaxCalls == 2
\* days the clock may advance
MaxDays == 1

(* Program constants *)

\* Settings.match_cache_hours
match_cache_hours == 24
\* .limit(50) of the active vacancies query
VACANCY_PAGE == 50
\* .gte("profile_completion", 30)
MIN_PROFILE_COMPLETION == 30
\* min(limit, 20) in the routers
MAX_LIMIT == 20

----------------------------------------------------------------------------
(* The record repository: rows in fetch order.  Only the attributes the    *)
(* engine branches on are kept.                                            *)

\* a row of student_profiles: a text or list attribute is kept as whether it
\* is non-empty, which is all calculate_profile_completion reads
StudentRow(id, user_id, has, profile_completion) ==
    [id |-> id, user_id |-> user_id,
     name |-> "name" \in has, university |-> "university" \in has,
     specialty |-> "specialty" \in has, skills |-> "skills" \in has,
     technologies |-> "technologies" \in has,
     experience_text |-> "experience_text" \in has,
     github_url |-> "github_url" \in has, resume_url |-> "resume_url" \in has,
     profile_completion |-> profile_completion]

\* the student_profiles table as most behaviours start with it
FewStudents ==
    << StudentRow("s1", "u1", {"name", "university", "specialty", "skills",
                               "experience_text", "github_url"}, 80),
       StudentRow("s2", "u2", {"name", "university"}, 30),
       StudentRow("s3", "u3", {"name", "experience_text"}, 25) >>

\* a student_profiles table with more complete rows than the vacancies page
ManyStudents ==
    [i \in 1..(VACANCY_PAGE + 1) |->
        StudentRow("s" \o ToString(i), "u" \o ToString(i),
                   {"name", "university", "specialty", "skills",
                    "experience_text", "github_url"}, 80)]

\* the vacancies table as most behaviours start with it
FewVacancies ==
    << [id |-> "v1", is_active |-> TRUE],
       [id |-> "v2", is_active |-> TRUE],
       [id |-> "v3", is_active |-> FALSE] >>

\* a vacancies table with more active rows than the routers' cap on limit
ManyVacancies ==
    [i \in 1..(MAX_LIMIT + 2) |-> [id |-> "v" \o ToString(i), is_active |-> TRUE]]

\* the coroutines the event loop may hold at once; a new request takes the
\* lowest free one
Requests == {1, 2}

\* inputs of the two ranking calls ("s9", "v9": no such row)
StudentRequestIds == {"s1", "s9"}
VacancyRequestIds == {"v1", "v9"}
Limits == {1, 10}
\* limits no validation keeps out: negative, zero, above the cap
UnvalidatedLimits == {-1, 0, MAX_LIMIT + 5}

\* instants at which the clock is observed, in hours
TimePoints ==
    {0} \cup UNION { {d * match_cache_hours, d * match_cache_hours + 1} : d \in 1..MaxDays }

----------------------------------------------------------------------------
(* Python helpers *)

Min(a, b) == IF a <= b THEN a ELSE b
Max(a, b) == IF a >= b THEN a ELSE b

\* seq[:n]
PySliceTo(seq, n) ==
    IF n >= 0 THEN SubSeq(seq, 1, Min(n, Len(seq)))
    ELSE SubSeq(seq, 1, Max(Len(seq) + n, 0))

\* a JSON value of the provider's object: t is its JSON type, v its value
\* (a float is kept in tenths)
JInt(n) == [t |-> "int", v |-> n]
JFloat(tenths) == [t |-> "float", v |-> tenths]
JStr == [t |-> "str", v |-> 0]
JMissing == [t |-> "missing", v |-> 0]

\* parsed.get("match_percent", 0)
DictGetPercent(j) == IF j.t = "missing" THEN JInt(0) ELSE j

\* int(x): truncates a float toward zero, raises on a non-numeric string
PyInt(j) ==
    CASE j.t = "int" -> [ok |-> TRUE, v |-> j.v]
      [] j.t = "float" ->
            [ok |-> TRUE,
             v |-> IF j.v >= 0 THEN j.v \div 10 ELSE -((-j.v) \div 10)]
      [] OTHER -> [ok |-> FALSE, v |-> 0]

----------------------------------------------------------------------------
(* Scoring providers *)

\* What the Gemini SDK call does: raises, or returns text.  body stands for
\* the triple strong_skills / missing_skills / explanation of the object.
Raise(msg) ==
    [kind |-> "raise", msg |-> msg, json |-> "none", match_percent |-> JMissing, body |-> "none"]
Text(json) ==
    [kind |-> "text", msg |-> "none", json |-> json, match_percent |-> JMissing, body |-> "none"]
Object(percent, body) ==
    [kind |-> "text", msg |-> "none", json |-> "object", match_percent |-> percent, body |-> body]

GeminiBehaviours ==
    { Raise("quota"), Raise("other"), Text("invalid"), Text("array"),
      Object(JInt(60), "A"), Object(JInt(135), "A"),
      Object(JFloat(759), "A"), Object(JMissing, "A"), Object(JStr, "A") }

ConcurrentBehaviours ==
    { Raise("quota"), Object(JInt(60), "A"), Object(JInt(135), "A"), Object(JFloat(759), "A") }

\* the instants at which the concurrent specification observes the clock:
\* the start, and the first hour past the freshness window
ConcurrentTimePoints == {0, match_cache_hours + 1}

\* What the Groq SDK call would do if it were made
GroqBehaviours == { Raise("other"), Object(JInt(70), "G") }

NoValue == [match_percent |-> 0, body |-> "none"]

Failed(code, gemini_calls, groq_calls) ==
    [ok |-> FALSE, code |-> code, value |-> NoValue,
     gemini_calls |-> gemini_calls, groq_calls |-> groq_calls]

Returned(value, gemini_calls, groq_calls) ==
    [ok |-> TRUE, code |-> 200, value |-> value,
     gemini_calls |-> gemini_calls, groq_calls |-> groq_calls]

\* the body of the try block after the SDK call has returned text:
\* json.loads, then the dict of the four fields
ParseMatch(b) ==
    IF b.json = "invalid" THEN [ok |-> FALSE, exc |-> "JSONDecodeError", value |-> NoValue]
    ELSE IF b.json # "object" THEN [ok |-> FALSE, exc |-> "AttributeError", value |-> NoValue]
    ELSE LET p == PyInt(DictGetPercent(b.match_percent))
         IN IF p.ok
            THEN [ok |-> TRUE, exc |-> "none",
                  value |-> [match_percent |-> p.v, body |-> b.body]]
            ELSE [ok |-> FALSE, exc |-> "ValueError", value |-> NoValue]

\* GroqService.analyze_match
GroqAnalyzeMatch(g) ==
    IF g.kind = "raise" THEN Failed(503, 0, 1)
    ELSE LET p == ParseMatch(g)
         IN IF p.ok THEN Returned(p.value, 0, 1)
            ELSE IF p.exc = "JSONDecodeError" THEN Failed(502, 0, 1)
            ELSE Failed(503, 0, 1)

\* GeminiService._groq_analyze_with_delay: raises NotImplementedError
\* without calling groq_service
GroqAnalyzeWithDelay(g) == Failed(501, 0, 0)

\* _sync_analyze_match calling the SDK a second time after an exception
SyncAnalyzeMatchRetrying(b, g) ==
    IF b.kind = "text"
    THEN LET p == ParseMatch(b)
         IN IF p.ok THEN Returned(p.value, 1, 0)
            ELSE IF p.exc = "JSONDecodeError" THEN Failed(502, 1, 0)
            ELSE Failed(503, 1, 0)
    ELSE IF b.msg = "quota" THEN Failed(429, 2, 0)
         ELSE Failed(503, 2, 0)

\* _sync_analyze_match answering a zero score when the fallback fails too
SyncAnalyzeMatchDefaulting(b, g) ==
    IF b.kind = "text"
    THEN LET p == ParseMatch(b)
         IN IF p.ok THEN Returned(p.value, 1, 0)
            ELSE IF p.exc = "JSONDecodeError" THEN Failed(502, 1, 0)
            ELSE Failed(503, 1, 0)
    ELSE IF b.msg = "quota" THEN Returned([match_percent |-> 0, body |-> "none"], 1, 0)
         ELSE Failed(503, 1, 0)

\* GeminiService._sync_analyze_match, run in an executor thread: one SDK
\* call, then the parse, or the except branches
SyncAnalyzeMatch(b, g) ==
    IF b.kind = "text"
    THEN LET p == ParseMatch(b)
         IN IF p.ok THEN Returned(p.value, 1, 0)
            ELSE IF p.exc = "JSONDecodeError" THEN Failed(502, 1, 0)
            ELSE Failed(503, 1, 0)
    ELSE IF b.msg = "quota"
         THEN LET fb == GroqAnalyzeWithDelay(g)
              IN IF fb.ok THEN Returned(fb.value, 1, fb.groq_calls)
                 ELSE Failed(429, 1, fb.groq_calls)
         ELSE Failed(503, 1, 0)

----------------------------------------------------------------------------
(* The matches table *)

\* a lookup that never finds a row
CacheLookupNone(tbl, student_id, vacancy_id, threshold) == {}

\* the lookup with .gt in place of .gte
CacheLookupStrict(tbl, student_id, vacancy_id, threshold) ==
    { row \in tbl : /\ row.student_id = student_id
                    /\ row.vacancy_id = vacancy_id
                    /\ row.cached_at > threshold }

\* .eq(student_id).eq(vacancy_id).gte("cached_at", threshold)
CacheLookup(tbl, student_id, vacancy_id, threshold) ==
    { row \in tbl : /\ row.student_id = student_id
                    /\ row.vacancy_id = vacancy_id
                    /\ row.cached_at >= threshold }

\* the rows of one key
RowsOf(tbl, student_id, vacancy_id) ==
    { row \in tbl : row.student_id = student_id /\ row.vacancy_id = vacancy_id }

\* an insert that leaves an existing row of the key alone
InsertIfAbsent(tbl, row) ==
    IF \E x \in tbl : x.student_id = row.student_id /\ x.vacancy_id = row.vacancy_id
    THEN tbl
    ELSE tbl \cup {row}

\* an upsert whose conflict target is student_id alone
UpsertOnStudent(tbl, row) ==
    { x \in tbl : x.student_id # row.student_id } \cup {row}

\* an upsert that deletes the row of the key when there is one
DeleteOnConflict(tbl, row) ==
    IF \E x \in tbl : x.student_id = row.student_id /\ x.vacancy_id = row.vacancy_id
    THEN { x \in tbl : ~(x.student_id = row.student_id /\ x.vacancy_id = row.vacancy_id) }
    ELSE tbl \cup {row}

\* an insert that ignores on_conflict
InsertOnly(tbl, row) == tbl \cup {row}

\* .upsert(match_data, on_conflict="student_id,vacancy_id")
Upsert(tbl, row) ==
    { x \in tbl : ~(x.student_id = row.student_id /\ x.vacancy_id = row.vacancy_id) }
        \cup {row}

----------------------------------------------------------------------------
(* MatchingService *)

\* a MatchResult that is never tagged as served from the table
MatchResultUntagged(vacancy_id, value, cached, cached_at) ==
    [ok |-> value.match_percent >= 0 /\ value.match_percent <= 100,
     value |-> [vacancy_id |-> vacancy_id, match_percent |-> value.match_percent,
                body |-> value.body, cached |-> FALSE, cached_at |-> cached_at]]

\* a MatchResult that is always tagged as served from the table
MatchResultTaggedCached(vacancy_id, value, cached, cached_at) ==
    [ok |-> value.match_percent >= 0 /\ value.match_percent <= 100,
     value |-> [vacancy_id |-> vacancy_id, match_percent |-> value.match_percent,
                body |-> value.body, cached |-> TRUE, cached_at |-> cached_at]]

\* MatchResult(...): pydantic validates match_percent: int, ge=0, le=100.
\* cached_at is -1 for None.
MatchResult(vacancy_id, value, cached, cached_at) ==
    [ok |-> value.match_percent >= 0 /\ value.match_percent <= 100,
     value |-> [vacancy_id |-> vacancy_id, match_percent |-> value.match_percent,
                body |-> value.body, cached |-> cached, cached_at |-> cached_at]]

\* the dict appended to candidates
Candidate(student_id, mr) ==
    [student_id |-> student_id, match_percent |-> mr.match_percent, body |-> mr.body]

\* a descending sort that reverses the order of the elements equal to
\* each other
SortsBeforeTiesReversed(seq, i, j) ==
    \/ seq[i].match_percent > seq[j].match_percent
    \/ seq[i].match_percent = seq[j].match_percent /\ i > j

\* list.sort(key=match_percent, reverse=True): the element at i comes before
\* the element at j when its key is greater; the sort is stable, equal keys
\* keep their order
SortsBefore(seq, i, j) ==
    \/ seq[i].match_percent > seq[j].match_percent
    \/ seq[i].match_percent = seq[j].match_percent /\ i < j

\* the sorted list: each element stands after the elements that sort
\* before it
SortDesc(seq) ==
    LET n == Len(seq)
        pos(j) == 1 + Cardinality({ i \in 1..n : SortsBefore(seq, i, j) })
    IN [p \in 1..n |-> seq[CHOOSE j \in 1..n : pos(j) = p]]

\* payloads: for each fetched row, what GeminiMatchPayload would take from
\* the dicts the call fetched when it started
\* fault: the accesses to matches the request still makes before one raises
\* (-1: none raises)
Idle ==
    [pc |-> "idle", kind |-> "none", target |-> "none", asked |-> 0, limit |-> 0,
     fault |-> -1, items |-> <<>>, payloads |-> <<>>,
     idx |-> 1, results |-> <<>>, calls |-> <<>>, pending |-> Failed(0, 0, 0),
     status |-> 0, response |-> <<>>]

\* one invocation of _get_or_compute_match, as the request's trace keeps it
\* (before: the rows of the key at the time of the lookup, kept for the
\* properties only)
Invocation(student_id, vacancy_id, at, found, before) ==
    [student_id |-> student_id, vacancy_id |-> vacancy_id, at |-> at,
     found |-> found, before |-> before, state |-> "await", behaviour |-> {}, groq |-> {},
     gemini_calls |-> 0, groq_calls |-> 0, upserted |-> {}, code |-> 0, ret |-> {},
     store_error |-> "none"]

StudentOf(rq, item) == IF rq.kind = "student" THEN rq.target ELSE item
VacancyOf(rq, item) == IF rq.kind = "student" THEN item ELSE rq.target

\* results.append(match_result) / candidates.append({...})
Collected(rq, item, mr) ==
    IF rq.kind = "student" THEN mr ELSE Candidate(item, mr)

\* a ranking call that answers the pairs collected so far when a pair fails
AbortWithPartial(rq, code) ==
    [rq EXCEPT !.pc = "done", !.status = 200, !.response = rq.results]

\* an exception leaves the ranking call
Abort(rq, code) == [rq EXCEPT !.pc = "done", !.status = code]

\* results.sort(...); return results[:limit]
Finish(rq) ==
    [rq EXCEPT !.pc = "done", !.status = 200,
               !.response = PySliceTo(SortDesc(rq.results), rq.limit)]

\* the for loop of the ranking call from item idx on, up to the first await
\* that suspends (a cache miss) or the return; _get_or_compute_match up to
\* the provider call is inlined
\* the countdown to the access that raises, after an access that did not
AfterAccess(fault) == IF fault > 0 THEN fault - 1 ELSE fault

RECURSIVE RunLoop(_, _, _)
RunLoop(rq, tbl, t) ==
    IF rq.idx > Len(rq.items) THEN Finish(rq)
    ELSE LET item == rq.items[rq.idx]
             found == CacheLookup(tbl, StudentOf(rq, item), VacancyOf(rq, item),
                                  t - match_cache_hours)
             inv == Invocation(StudentOf(rq, item), VacancyOf(rq, item), t, found,
                               RowsOf(tbl, StudentOf(rq, item), VacancyOf(rq, item)))
         IN IF rq.fault = 0
            THEN Abort([rq EXCEPT !.fault = -1,
                                  !.calls = Append(@, [inv EXCEPT !.found = {},
                                                                  !.state = "raised",
                                                                  !.code = 500,
                                                                  !.store_error = "lookup"])],
                       500)
            ELSE IF found # {}
            THEN LET cached == CHOOSE row \in found : TRUE
                     mr == MatchResult(VacancyOf(rq, item),
                                       [match_percent |-> cached.match_percent,
                                        body |-> cached.body],
                                       TRUE, cached.cached_at)
                 IN IF mr.ok
                    THEN RunLoop([rq EXCEPT
                                    !.idx = @ + 1,
                                    !.fault = AfterAccess(@),
                                    !.results = Append(@, Collected(rq, item, mr.value)),
                                    !.calls = Append(@, [inv EXCEPT !.state = "returned",
                                                                    !.code = 200,
                                                                    !.ret = {mr.value}])],
                                 tbl, t)
                    ELSE Abort([rq EXCEPT !.calls = Append(@, [inv EXCEPT !.state = "raised",
                                                                          !.code = 500])],
                               500)
            ELSE [rq EXCEPT !.pc = "await", !.fault = AfterAccess(@), !.calls = Append(@, inv)]

\* the student query without its .eq("id", student_id)
FetchStudentUnfiltered(student_id) == student_profiles

\* .table("student_profiles").select("*").eq("id", student_id)
FetchStudent(student_id) == SelectSeq(student_profiles, LAMBDA s : s.id = student_id)

\* .table("vacancies").select("*").eq("id", vacancy_id)
FetchVacancy(vacancy_id) == SelectSeq(vacancies, LAMBDA v : v.id = vacancy_id)

\* the vacancies query without its .eq("is_active", True)
AllVacancies == PySliceTo(vacancies, VACANCY_PAGE)

\* the rows a ranking call iterates over
ActiveVacancies == PySliceTo(SelectSeq(vacancies, LAMBDA v : v.is_active), VACANCY_PAGE)
\* the query with .gt in place of .gte
CompleteStudentsStrict ==
    SelectSeq(student_profiles, LAMBDA s : s.profile_completion > MIN_PROFILE_COMPLETION)

CompleteStudents ==
    SelectSeq(student_profiles, LAMBDA s : s.profile_completion >= MIN_PROFILE_COMPLETION)

Ids(rows) == [i \in 1..Len(rows) |-> rows[i].id]

\* GeminiMatchPayload(...): the student attributes of the payload, read
\* from a fetched student dict
GeminiMatchPayload(student) ==
    [student_skills |-> student.skills,
     student_technologies |-> student.technologies,
     student_experience |-> student.experience_text]

\* get_matches_for_student passes the one student dict it fetched to every
\* invocation
StudentPayloads(student_id, n) ==
    [i \in 1..n |-> GeminiMatchPayload(FetchStudent(student_id)[1])]

\* get_candidates_for_vacancy passes each fetched student dict to its
\* invocation
Payloads(rows) == [i \in 1..Len(rows) |-> GeminiMatchPayload(rows[i])]

----------------------------------------------------------------------------
(* Actions *)

\* no operation outside the ranking calls has answered yet
NoReply == [op |-> "none", status |-> 0, data |-> {}, failed |-> {}]

Init ==
    /\ matches = {}
    /\ student_profiles = FewStudents
    /\ vacancies = FewVacancies
    /\ skill_history = {}
    /\ reply = NoReply
    /\ now = 0
    /\ req = [r \in Requests |-> Idle]
    /\ started = 0

\* a ranking call that stamps the rows it serves from the table with the
\* time of the hit
GetMatchesForStudentTouching(r, student_id, limit) ==
    /\ req[r].pc \in {"idle", "done"}
    /\ \A q \in Requests : q < r => req[q].pc \in {"await", "ready"}
    /\ started < MaxCalls
    /\ started' = started + 1
    /\ LET rq == [Idle EXCEPT !.kind = "student", !.target = student_id,
                              !.asked = limit, !.limit = Min(limit, MAX_LIMIT),
                              !.fault = req[r].fault]
           after == IF FetchStudent(student_id) = <<>> THEN Abort(rq, 404)
                    ELSE IF ActiveVacancies = <<>> THEN [rq EXCEPT !.pc = "done", !.status = 200]
                    ELSE RunLoop([rq EXCEPT !.items = Ids(ActiveVacancies),
                                        !.payloads = StudentPayloads(student_id, Len(ActiveVacancies))],
                         matches, now)
       IN /\ req' = [req EXCEPT ![r] = after]
          /\ matches' =
               { IF \E i \in 1..Len(after.calls) : row \in after.calls[i].found
                 THEN [row EXCEPT !.cached_at = now]
                 ELSE row : row \in matches }
    /\ UNCHANGED <<student_profiles, vacancies, skill_history, now, reply>>

\* a ranking call whose vacancies query takes the caller's limit
GetMatchesForStudentFetchingLimit(r, student_id, limit) ==
    /\ req[r].pc \in {"idle", "done"}
    /\ \A q \in Requests : q < r => req[q].pc \in {"await", "ready"}
    /\ started < MaxCalls
    /\ started' = started + 1
    /\ LET rq == [Idle EXCEPT !.kind = "student", !.target = student_id,
                              !.asked = limit, !.limit = Min(limit, MAX_LIMIT),
                              !.fault = req[r].fault]
       IN req' = [req EXCEPT ![r] =
            IF FetchStudent(student_id) = <<>>
            THEN Abort(rq, 404)
            ELSE IF ActiveVacancies = <<>>
            THEN [rq EXCEPT !.pc = "done", !.status = 200]
            ELSE RunLoop([rq EXCEPT !.items = PySliceTo(Ids(ActiveVacancies), rq.limit),
                                 !.payloads = StudentPayloads(student_id,
                                     Len(PySliceTo(Ids(ActiveVacancies), rq.limit)))],
                         matches, now)]
    /\ UNCHANGED <<matches, student_profiles, vacancies, skill_history, now, reply>>

\* GET /students/matches -> MatchingService.get_matches_for_student
GetMatchesForStudent(r, student_id, limit) ==
    /\ req[r].pc \in {"idle", "done"}
    /\ \A q \in Requests : q < r => req[q].pc \in {"await", "ready"}
    /\ started < MaxCalls
    /\ started' = started + 1
    /\ LET rq == [Idle EXCEPT !.kind = "student", !.target = student_id,
                              !.asked = limit, !.limit = Min(limit, MAX_LIMIT),
                              !.fault = req[r].fault]
       IN req' = [req EXCEPT ![r] =
            IF FetchStudent(student_id) = <<>>
            THEN Abort(rq, 404)
            ELSE IF ActiveVacancies = <<>>
            THEN [rq EXCEPT !.pc = "done", !.status = 200]
            ELSE RunLoop([rq EXCEPT !.items = Ids(ActiveVacancies),
                                        !.payloads = StudentPayloads(student_id, Len(ActiveVacancies))],
                         matches, now)]
    /\ UNCHANGED <<matches, student_profiles, vacancies, skill_history, now, reply>>

\* GET /employers/vacancies/{id}/candidates
\*   -> MatchingService.get_candidates_for_vacancy
GetCandidatesForVacancy(r, vacancy_id, limit) ==
    /\ req[r].pc \in {"idle", "done"}
    /\ \A q \in Requests : q < r => req[q].pc \in {"await", "ready"}
    /\ started < MaxCalls
    /\ started' = started + 1
    /\ LET rq == [Idle EXCEPT !.kind = "vacancy", !.target = vacancy_id,
                              !.asked = limit, !.limit = Min(limit, MAX_LIMIT),
                              !.fault = req[r].fault]
       IN req' = [req EXCEPT ![r] =
            IF FetchVacancy(vacancy_id) = <<>>
            THEN Abort(rq, 404)
            ELSE RunLoop([rq EXCEPT !.items = Ids(CompleteStudents),
                               !.payloads = Payloads(CompleteStudents)],
                         matches, now)]
    /\ UNCHANGED <<matches, student_profiles, vacancies, skill_history, now, reply>>

\* the executor thread runs _sync_analyze_match for the awaited pair
GeminiReturns(r, b, g) ==
    /\ req[r].pc = "await"
    /\ LET res == SyncAnalyzeMatch(b, g)
           n == Len(req[r].calls)
       IN req' = [req EXCEPT ![r].pc = "ready",
                             ![r].pending = res,
                             ![r].calls[n] =
                                [@ EXCEPT !.state = "ready",
                                          !.behaviour = {b},
                                          !.groq = IF b.kind = "raise" THEN {g} ELSE {},
                                          !.gemini_calls = res.gemini_calls,
                                          !.groq_calls = res.groq_calls]]
    /\ UNCHANGED <<matches, student_profiles, vacancies, skill_history, now, started, reply>>

\* a resume that goes on with the computed score when the upsert raises
ResumeIgnoringUpsertError(r) ==
    /\ req[r].pc = "ready"
    /\ LET rq == req[r]
           res == rq.pending
           n == Len(rq.calls)
           item == rq.items[rq.idx]
           row == [student_id |-> StudentOf(rq, item), vacancy_id |-> VacancyOf(rq, item),
                   match_percent |-> res.value.match_percent, body |-> res.value.body,
                   cached_at |-> now]
           mr == MatchResult(VacancyOf(rq, item), res.value, FALSE, -1)
           tbl == IF rq.fault = 0 THEN matches ELSE Upsert(matches, row)
       IN IF ~res.ok
          THEN /\ req' = [req EXCEPT ![r] =
                            Abort([rq EXCEPT !.calls[n] = [@ EXCEPT !.state = "raised",
                                                                    !.code = res.code]],
                                  res.code)]
               /\ UNCHANGED matches
          ELSE /\ matches' = tbl
               /\ req' = [req EXCEPT ![r] =
                            IF mr.ok
                            THEN RunLoop([rq EXCEPT
                                            !.idx = @ + 1,
                                            !.fault = IF @ = 0 THEN -1 ELSE AfterAccess(@),
                                            !.results = Append(@, Collected(rq, item, mr.value)),
                                            !.calls[n] =
                                               [@ EXCEPT !.state = "returned",
                                                         !.code = 200,
                                                         !.store_error =
                                                            IF rq.fault = 0 THEN "upsert"
                                                            ELSE "none",
                                                         !.upserted = tbl \ matches,
                                                         !.ret = {mr.value}]],
                                         tbl, now)
                            ELSE Abort([rq EXCEPT !.fault = AfterAccess(@),
                                                  !.calls[n] = [@ EXCEPT !.state = "raised",
                                                                         !.code = 500,
                                                                         !.upserted = {row}]],
                                       500)]
    /\ UNCHANGED <<student_profiles, vacancies, skill_history, now, started, reply>>

\* the coroutine resumes after await gemini_service.analyze_match(payload):
\* upsert, MatchResult, then the loop goes on
Resume(r) ==
    /\ req[r].pc = "ready"
    /\ LET rq == req[r]
           res == rq.pending
           n == Len(rq.calls)
           item == rq.items[rq.idx]
           row == [student_id |-> StudentOf(rq, item), vacancy_id |-> VacancyOf(rq, item),
                   match_percent |-> res.value.match_percent, body |-> res.value.body,
                   cached_at |-> now]
           mr == MatchResult(VacancyOf(rq, item), res.value, FALSE, -1)
       IN IF ~res.ok
          THEN /\ req' = [req EXCEPT ![r] =
                            Abort([rq EXCEPT !.calls[n] = [@ EXCEPT !.state = "raised",
                                                                    !.code = res.code]],
                                  res.code)]
               /\ UNCHANGED matches
          ELSE IF rq.fault = 0
          THEN /\ req' = [req EXCEPT ![r] =
                            Abort([rq EXCEPT !.fault = -1,
                                             !.calls[n] = [@ EXCEPT !.state = "raised",
                                                                    !.code = 500,
                                                                    !.store_error = "upsert"]],
                                  500)]
               /\ UNCHANGED matches
          ELSE /\ matches' = Upsert(matches, row)
               /\ req' = [req EXCEPT ![r] =
                            IF mr.ok
                            THEN RunLoop([rq EXCEPT
                                            !.idx = @ + 1,
                                            !.fault = AfterAccess(@),
                                            !.results = Append(@, Collected(rq, item, mr.value)),
                                            !.calls[n] = [@ EXCEPT !.state = "returned",
                                                                   !.code = 200,
                                                                   !.upserted = {row},
                                                                   !.ret = {mr.value}]],
                                         Upsert(matches, row), now)
                            ELSE Abort([rq EXCEPT !.fault = AfterAccess(@),
                                                  !.calls[n] = [@ EXCEPT !.state = "raised",
                                                                         !.code = 500,
                                                                         !.upserted = {row}]],
                                       500)]
    /\ UNCHANGED <<student_profiles, vacancies, skill_history, now, started, reply>>

\* a cancellation that still stores a provider result that has arrived
CancelAfterWrite(r) ==
    /\ req[r].pc \in {"await", "ready"}
    /\ req' = [req EXCEPT ![r] =
                 Abort([@ EXCEPT !.calls[Len(@.calls)] = [@ EXCEPT !.state = "cancelled"]], -1)]
    /\ matches' =
          IF req[r].pc = "ready" /\ req[r].pending.ok
          THEN Upsert(matches,
                      [student_id |-> req[r].calls[Len(req[r].calls)].student_id,
                       vacancy_id |-> req[r].calls[Len(req[r].calls)].vacancy_id,
                       match_percent |-> req[r].pending.value.match_percent,
                       body |-> req[r].pending.value.body, cached_at |-> now])
          ELSE matches
    /\ UNCHANGED <<student_profiles, vacancies, skill_history, now, started, reply>>

\* the caller cancels the task of a ranking call: CancelledError is raised at
\* the await of the provider call, whether the executor thread has finished
\* or not, and nothing of the call runs after it (status -1: no response)
Cancel(r) ==
    /\ req[r].pc \in {"await", "ready"}
    /\ req' = [req EXCEPT ![r] =
                 Abort([@ EXCEPT !.calls[Len(@.calls)] = [@ EXCEPT !.state = "cancelled"]], -1)]
    /\ UNCHANGED <<matches, student_profiles, vacancies, skill_history, now, started, reply>>

\* the store starts raising: the (k+1)-th access of request r to matches
\* from now on raises
StoreFailsAfter(r, k) ==
    /\ req[r].fault = -1
    /\ req' = [req EXCEPT ![r].fault = k]
    /\ UNCHANGED <<matches, student_profiles, vacancies, skill_history, now, started, reply>>

\* time passes
Tick(t) ==
    /\ t > now
    /\ now' = t
    /\ UNCHANGED <<matches, student_profiles, vacancies, skill_history, req, started, reply>>

----------------------------------------------------------------------------
(* The routes that write the repository, and the read-only ones.  reply     *)
(* keeps the answer of the last of them: its status, the row it returns,    *)
(* and the steps of it that failed.  Authentication is left out.            *)

\* calculate_profile_completion(profile)
calculate_profile_completion(profile) ==
    Min((IF profile.name THEN 15 ELSE 0)
        + (IF profile.university THEN 15 ELSE 0)
        + (IF profile.specialty THEN 15 ELSE 0)
        + (IF profile.skills THEN 15 ELSE 0)
        + (IF profile.technologies THEN 15 ELSE 0)
        + (IF profile.experience_text THEN 10 ELSE 0)
        + (IF profile.github_url THEN 10 ELSE 0)
        + (IF profile.resume_url THEN 5 ELSE 0),
        100)

\* StudentProfileCreate bodies: name, university and specialty are required
\* (min_length=2), the rest may be empty; there is no resume_url field
ProfileCreate(skills, technologies, experience_text, github_url) ==
    [name |-> TRUE, university |-> TRUE, specialty |-> TRUE,
     skills |-> skills, technologies |-> technologies,
     experience_text |-> experience_text, github_url |-> github_url]

ProfileInputs ==
    { ProfileCreate(TRUE, TRUE, TRUE, TRUE), ProfileCreate(FALSE, FALSE, FALSE, FALSE) }

\* the users that call the student routes: u1 has a profile, u4 has none
Users == {"u1", "u4"}

\* the id the table gives the profile a user creates
NewStudentId(user_id) == IF user_id = "u4" THEN "s4" ELSE "s5"

\* the positions of a user's rows in student_profiles
ProfilesOf(user_id) ==
    { k \in 1..Len(student_profiles) : student_profiles[k].user_id = user_id }

FirstProfileOf(user_id) == CHOOSE k \in ProfilesOf(user_id) : \A j \in ProfilesOf(user_id) : k <= j

Reply(op, status, data, failed) ==
    [op |-> op, status |-> status, data |-> data, failed |-> failed]

\* _save_skill_snapshot(student_id, skills): the insert, or nothing when it
\* raises
SaveSkillSnapshot(student_id, skills, insert_ok) ==
    IF insert_ok
    THEN skill_history \cup {[student_id |-> student_id, skills |-> skills, snapshot_date |-> now]}
    ELSE skill_history

\* POST /students/profile
UpsertStudentProfile(user_id, profile_data, write_ok, snapshot_ok) ==
    LET profile_completion ==
            calculate_profile_completion(
                [name |-> profile_data.name, university |-> profile_data.university,
                 specialty |-> profile_data.specialty, skills |-> profile_data.skills,
                 technologies |-> profile_data.technologies,
                 experience_text |-> profile_data.experience_text,
                 github_url |-> profile_data.github_url, resume_url |-> FALSE])
        saved ==
            IF ProfilesOf(user_id) # {}
            THEN [student_profiles[FirstProfileOf(user_id)] EXCEPT
                     !.name = profile_data.name,
                     !.university = profile_data.university,
                     !.specialty = profile_data.specialty,
                     !.skills = profile_data.skills,
                     !.technologies = profile_data.technologies,
                     !.experience_text = profile_data.experience_text,
                     !.github_url = profile_data.github_url,
                     !.profile_completion = profile_completion]
            ELSE [id |-> NewStudentId(user_id), user_id |-> user_id,
                  name |-> profile_data.name, university |-> profile_data.university,
                  specialty |-> profile_data.specialty, skills |-> profile_data.skills,
                  technologies |-> profile_data.technologies,
                  experience_text |-> profile_data.experience_text,
                  github_url |-> profile_data.github_url, resume_url |-> FALSE,
                  profile_completion |-> profile_completion]
    IN /\ IF ~write_ok
          THEN /\ reply' = Reply("upsert_student_profile", 500, {}, {"student_profiles"})
               /\ UNCHANGED <<student_profiles, skill_history>>
          ELSE /\ student_profiles' =
                     IF ProfilesOf(user_id) # {}
                     THEN [student_profiles EXCEPT ![FirstProfileOf(user_id)] = saved]
                     ELSE Append(student_profiles, saved)
               /\ skill_history' =
                     SaveSkillSnapshot(saved.id,
                                       profile_data.technologies \/ profile_data.skills,
                                       snapshot_ok)
               /\ reply' = Reply("upsert_student_profile", 200, {saved},
                                 IF snapshot_ok THEN {} ELSE {"skill_history"})
       /\ UNCHANGED <<matches, vacancies, now, req, started>>

\* what pdf_service.extract_text and groq_service.structure_resume_data give
\* POST /students/upload-resume: an exception, or the structured fields
ResumeFailure(step, status) == [ok |-> FALSE, step |-> step, status |-> status,
                                skills |-> FALSE, technologies |-> FALSE, experience |-> FALSE]
ResumeData(skills, technologies, experience) ==
    [ok |-> TRUE, step |-> "none", status |-> 200,
     skills |-> skills, technologies |-> technologies, experience |-> experience]

ResumeOutcomes ==
    { ResumeFailure("pdf", 422), ResumeFailure("groq", 502), ResumeFailure("groq", 503),
      ResumeData(TRUE, TRUE, TRUE), ResumeData(FALSE, FALSE, FALSE) }

\* a resume upload that also drops the student's rows of matches
UploadResumeInvalidating(user_id, structured_data) ==
    /\ IF ~structured_data.ok
       THEN /\ reply' = Reply("upload_resume", structured_data.status, {}, {structured_data.step})
            /\ UNCHANGED <<student_profiles, matches>>
       ELSE /\ reply' = Reply("upload_resume", 200, {}, {})
            /\ matches' = { row \in matches :
                              \A k \in ProfilesOf(user_id) :
                                  row.student_id # student_profiles[k].id }
            /\ student_profiles' =
                 [k \in 1..Len(student_profiles) |->
                    IF student_profiles[k].user_id # user_id THEN student_profiles[k]
                    ELSE LET profile == student_profiles[FirstProfileOf(user_id)]
                             merged == [profile EXCEPT
                                          !.resume_url = TRUE,
                                          !.skills = @ \/ structured_data.skills,
                                          !.technologies = @ \/ structured_data.technologies,
                                          !.experience_text = structured_data.experience \/ @]
                         IN [student_profiles[k] EXCEPT
                               !.resume_url = merged.resume_url,
                               !.skills = merged.skills,
                               !.technologies = merged.technologies,
                               !.experience_text = merged.experience_text,
                               !.profile_completion = calculate_profile_completion(merged)]]
    /\ UNCHANGED <<vacancies, skill_history, now, req, started>>

\* POST /students/upload-resume
UploadResume(user_id, structured_data) ==
    /\ IF ~structured_data.ok
       THEN /\ reply' = Reply("upload_resume", structured_data.status, {}, {structured_data.step})
            /\ UNCHANGED student_profiles
       ELSE /\ reply' = Reply("upload_resume", 200, {}, {})
            /\ student_profiles' =
                 [k \in 1..Len(student_profiles) |->
                    IF student_profiles[k].user_id # user_id THEN student_profiles[k]
                    ELSE LET profile == student_profiles[FirstProfileOf(user_id)]
                             merged == [profile EXCEPT
                                          !.resume_url = TRUE,
                                          !.skills = @ \/ structured_data.skills,
                                          !.technologies = @ \/ structured_data.technologies,
                                          !.experience_text = structured_data.experience \/ @]
                         IN [student_profiles[k] EXCEPT
                               !.resume_url = merged.resume_url,
                               !.skills = merged.skills,
                               !.technologies = merged.technologies,
                               !.experience_text = merged.experience_text,
                               !.profile_completion = calculate_profile_completion(merged)]]
    /\ UNCHANGED <<matches, vacancies, skill_history, now, req, started>>

\* what github_service.analyze_profile gives: an HTTPException, or the
\* detected technologies (empty or not)
GithubOutcomes ==
    { [ok |-> FALSE, status |-> 404, detected_technologies |-> FALSE],
      [ok |-> FALSE, status |-> 503, detected_technologies |-> FALSE],
      [ok |-> TRUE, status |-> 200, detected_technologies |-> TRUE],
      [ok |-> TRUE, status |-> 200, detected_technologies |-> FALSE] }

\* POST /students/connect-github
ConnectGithub(user_id, github_data) ==
    /\ IF ~github_data.ok
       THEN /\ reply' = Reply("connect_github", github_data.status, {}, {"github"})
            /\ UNCHANGED student_profiles
       ELSE IF ProfilesOf(user_id) = {}
       THEN /\ reply' = Reply("connect_github", 404, {}, {})
            /\ UNCHANGED student_profiles
       ELSE /\ reply' = Reply("connect_github", 200, {}, {})
            /\ student_profiles' =
                 [k \in 1..Len(student_profiles) |->
                    IF student_profiles[k].user_id # user_id THEN student_profiles[k]
                    ELSE LET profile == student_profiles[FirstProfileOf(user_id)]
                             merged == [profile EXCEPT
                                          !.github_url = TRUE,
                                          !.technologies = @ \/ github_data.detected_technologies]
                         IN [student_profiles[k] EXCEPT
                               !.github_url = merged.github_url,
                               !.technologies = merged.technologies,
                               !.profile_completion = calculate_profile_completion(merged)]]
    /\ UNCHANGED <<matches, vacancies, skill_history, now, req, started>>

\* POST /employers/vacancies: the new vacancy is active
CreateVacancy(vacancy_id) ==
    /\ \A k \in 1..Len(vacancies) : vacancies[k].id # vacancy_id
    /\ vacancies' = Append(vacancies, [id |-> vacancy_id, is_active |-> TRUE])
    /\ reply' = Reply("create_vacancy", 201, {}, {})
    /\ UNCHANGED <<matches, student_profiles, skill_history, now, req, started>>

\* a vacancy update that also drops the vacancy's rows of matches
UpdateVacancyInvalidating(vacancy_id, is_active) ==
    /\ IF FetchVacancy(vacancy_id) = <<>>
       THEN /\ reply' = Reply("update_vacancy", 404, {}, {})
            /\ UNCHANGED <<vacancies, matches>>
       ELSE /\ vacancies' = [k \in 1..Len(vacancies) |->
                               IF vacancies[k].id = vacancy_id
                               THEN [vacancies[k] EXCEPT !.is_active = is_active]
                               ELSE vacancies[k]]
            /\ matches' = { row \in matches : row.vacancy_id # vacancy_id }
            /\ reply' = Reply("update_vacancy", 200, {}, {})
    /\ UNCHANGED <<student_profiles, skill_history, now, req, started>>

\* PUT /employers/vacancies/{vacancy_id} with a body that sets is_active
UpdateVacancy(vacancy_id, is_active) ==
    /\ IF FetchVacancy(vacancy_id) = <<>>
       THEN /\ reply' = Reply("update_vacancy", 404, {}, {})
            /\ UNCHANGED vacancies
       ELSE /\ vacancies' = [k \in 1..Len(vacancies) |->
                               IF vacancies[k].id = vacancy_id
                               THEN [vacancies[k] EXCEPT !.is_active = is_active]
                               ELSE vacancies[k]]
            /\ reply' = Reply("update_vacancy", 200, {}, {})
    /\ UNCHANGED <<matches, student_profiles, skill_history, now, req, started>>

\* what the Gemini or Groq SDK call of a read-only route does
ReadOutcomes ==
    { [ok |-> TRUE, step |-> "none"], [ok |-> FALSE, step |-> "sdk"], [ok |-> FALSE, step |-> "json"] }

\* GET /students/recommendations and GET /ai/recommendations:
\* gemini_service.generate_recommendations over the profile and ten vacancies
GetRecommendations(user_id, outcome) ==
    /\ reply' =
         IF ProfilesOf(user_id) = {} THEN Reply("get_recommendations", 404, {}, {})
         ELSE IF outcome.ok THEN Reply("get_recommendations", 200, {}, {})
         ELSE IF outcome.step = "json" THEN Reply("get_recommendations", 502, {}, {"json"})
         ELSE Reply("get_recommendations", 503, {}, {"sdk"})
    /\ UNCHANGED <<matches, student_profiles, vacancies, skill_history, now, req, started>>

\* GET /analytics/...: selects over vacancies and student_profiles
GetAnalytics ==
    /\ reply' = Reply("analytics", 200, {}, {})
    /\ UNCHANGED <<matches, student_profiles, vacancies, skill_history, now, req, started>>

\* GroqService.generate_skill_tags: any exception becomes the empty list
GenerateSkillTags(outcome) ==
    /\ reply' = Reply("generate_skill_tags", 200, {},
                      IF outcome.ok THEN {} ELSE {outcome.step})
    /\ UNCHANGED <<matches, student_profiles, vacancies, skill_history, now, req, started>>

\* one coroutine at a time, every input
Next ==
    \/ \E s \in StudentRequestIds, l \in Limits : GetMatchesForStudent(1, s, l)
    \/ \E v \in VacancyRequestIds, l \in Limits : GetCandidatesForVacancy(1, v, l)
    \/ \E b \in GeminiBehaviours, g \in GroqBehaviours : GeminiReturns(1, b, g)
    \/ Resume(1)
    \/ \E t \in TimePoints : Tick(t)

Spec == Init /\ [][Next]_vars

\* two coroutines interleaving at the await, on the pairs and the provider
\* behaviours of ConcurrentBehaviours
NextConcurrent ==
    \/ \E r \in Requests : GetMatchesForStudent(r, "s1", 10)
    \/ \E r \in Requests : GetCandidatesForVacancy(r, "v1", 10)
    \/ \E r \in Requests, b \in ConcurrentBehaviours, g \in GroqBehaviours : GeminiReturns(r, b, g)
    \/ \E r \in Requests : Resume(r)
    \/ \E t \in ConcurrentTimePoints : Tick(t)

SpecConcurrent == Init /\ [][NextConcurrent]_vars

\* one coroutine, the limits of UnvalidatedLimits, over small tables, a large
\* vacancies table or a large student_profiles table; Gemini always answers the same object
InitLimits ==
    /\ matches = {}
    /\ \/ student_profiles = FewStudents /\ vacancies \in {FewVacancies, ManyVacancies}
       \/ student_profiles = ManyStudents /\ vacancies = FewVacancies
    /\ skill_history = {}
    /\ reply = NoReply
    /\ now = 0
    /\ req = [r \in Requests |-> Idle]
    /\ started = 0

NextLimits ==
    \/ \E l \in UnvalidatedLimits : GetMatchesForStudent(1, "s1", l)
    \/ \E l \in UnvalidatedLimits : GetCandidatesForVacancy(1, "v1", l)
    \/ \E g \in GroqBehaviours : GeminiReturns(1, Object(JInt(60), "A"), g)
    \/ Resume(1)

SpecLimits == InitLimits /\ [][NextLimits]_vars

\* the student routes and the other services alone, every input
NextProfiles ==
    \/ \E u \in Users, p \in ProfileInputs, w \in BOOLEAN, h \in BOOLEAN :
          UpsertStudentProfile(u, p, w, h)
    \/ \E u \in Users, d \in ResumeOutcomes : UploadResume(u, d)
    \/ \E u \in Users, d \in GithubOutcomes : ConnectGithub(u, d)
    \/ \E u \in Users, o \in ReadOutcomes : GetRecommendations(u, o)
    \/ \E o \in ReadOutcomes : GenerateSkillTags(o)

SpecProfiles == Init /\ [][NextProfiles]_vars

\* one coroutine, with cancellation and with accesses to matches that raise
NextFaults ==
    \/ GetMatchesForStudent(1, "s1", 10)
    \/ GetCandidatesForVacancy(1, "v1", 10)
    \/ \E b \in {Object(JInt(60), "A"), Raise("quota")}, g \in GroqBehaviours :
          GeminiReturns(1, b, g)
    \/ Resume(1)
    \/ Cancel(1)
    \/ \E k \in {0, 1} : StoreFailsAfter(1, k)
    \/ \E t \in ConcurrentTimePoints : Tick(t)

SpecFaults == Init /\ [][NextFaults]_vars

\* one coroutine ranking for s1 and for v1 while the other routes run, each
\* with inputs that succeed
NextRepository ==
    \/ GetMatchesForStudent(1, "s1", 10)
    \/ GetCandidatesForVacancy(1, "v1", 10)
    \/ \E g \in GroqBehaviours : GeminiReturns(1, Object(JInt(60), "A"), g)
    \/ Resume(1)
    \/ \E p \in ProfileInputs : UpsertStudentProfile("u1", p, TRUE, TRUE)
    \/ UploadResume("u1", ResumeData(TRUE, TRUE, TRUE))
    \/ ConnectGithub("u1", [ok |-> TRUE, status |-> 200, detected_technologies |-> TRUE])
    \/ CreateVacancy("v4")
    \/ \E a \in BOOLEAN : UpdateVacancy("v2", a)
    \/ GetRecommendations("u1", [ok |-> TRUE, step |-> "none"])
    \/ GetAnalytics

SpecRepository == Init /\ [][NextRepository]_vars

\* a Gemini whose score is a function of the payload it is sent, so that a
\* score tells which student attributes it was computed from
ScoreOf(payload) ==
    (IF payload.student_skills THEN 40 ELSE 0)
    + (IF payload.student_technologies THEN 30 ELSE 0)
    + (IF payload.student_experience THEN 20 ELSE 0)

\* what that Gemini answers to the invocation a ranking call is awaiting
GeminiAnswer(rq) == Object(JInt(ScoreOf(rq.payloads[rq.idx])), "A")

\* one coroutine ranking for s1 and for v1 with that Gemini, while the
\* profile of s1 and the vacancy v2 are edited and time passes
NextInvalidation ==
    \/ GetMatchesForStudent(1, "s1", 10)
    \/ GetCandidatesForVacancy(1, "v1", 10)
    \/ \E g \in GroqBehaviours : GeminiReturns(1, GeminiAnswer(req[1]), g)
    \/ Resume(1)
    \/ \E p \in ProfileInputs : UpsertStudentProfile("u1", p, TRUE, TRUE)
    \/ UploadResume("u1", ResumeData(TRUE, TRUE, TRUE))
    \/ \E a \in BOOLEAN : UpdateVacancy("v2", a)
    \/ \E t \in ConcurrentTimePoints : Tick(t)

SpecInvalidation == Init /\ [][NextInvalidation]_vars

\* the two coroutines of SpecConcurrent under fairness: the executor thread
\* of an awaited provider call eventually returns or raises, and the event
\* loop eventually resumes a coroutine whose await is over
Fairness ==
    \A r \in Requests :
        /\ WF_vars(\E b \in ConcurrentBehaviours, g \in GroqBehaviours : GeminiReturns(r, b, g))
        /\ WF_vars(Resume(r))

SpecFair == Init /\ [][NextConcurrent]_vars /\ Fairness

----------------------------------------------------------------------------
(* Properties.  The engine's errors are HTTP statuses: 502 is the spec's     *)
(* ScoringMalformed, 429 and 503 its ScoringUnavailable, 404 NotFound; 500  *)
(* is pydantic's ValidationError leaving the call unhandled.               *)

ScoringMalformed == {502}
ScoringUnavailable == {429, 503}

\* every invocation of _get_or_compute_match the running or last requests made
Calls == UNION { { req[r].calls[i] : i \in 1..Len(req[r].calls) } : r \in Requests }

Settled(c) == c.state \in {"returned", "raised"}
ProviderDone(c) == c.state \in {"ready", "returned", "raised"}
PrimaryRaised(c) == \E b \in c.behaviour : b.kind = "raise"
PrimaryRateLimited(c) == \E b \in c.behaviour : b.kind = "raise" /\ b.msg = "quota"
FallbackWouldSucceed(c) == \E g \in c.groq : GroqAnalyzeMatch(g).ok

\* the provider's text is an object whose match_percent is an integer in 0..100
InContract(b) ==
    /\ b.kind = "text"
    /\ b.json = "object"
    /\ b.match_percent.t = "int"
    /\ b.match_percent.v >= 0
    /\ b.match_percent.v <= 100

\* C1: a pair whose lookup finds a fresh row gets that row's score and body
\* back, tagged cached, with no Gemini call and no Groq call.
C1_FreshHitReturnsStored ==
    \A c \in Calls :
        c.found # {} =>
            /\ c.state = "returned"
            /\ c.gemini_calls = 0
            /\ c.groq_calls = 0
            /\ \E row \in c.found, m \in c.ret :
                    /\ m.match_percent = row.match_percent
                    /\ m.body = row.body
                    /\ m.cached

\* C2: an invocation whose lookup finds no fresh row (no row, or a stale
\* one) has made exactly one Gemini call once its provider step is over.
C2_ExactlyOnePrimaryCall ==
    \A c \in Calls :
        (c.found = {} /\ ProviderDone(c)) => c.gemini_calls = 1

\* a stale row is recomputed, Gemini fails, and it was called once
C2_Witness ==
    \E c \in Calls :
        /\ c.found = {}
        /\ c.before # {}
        /\ c.state = "raised"
        /\ PrimaryRaised(c)
        /\ c.gemini_calls = 1

\* C3: after a Gemini call that raised (quota or anything else) exactly one
\* call of groq_service.analyze_match follows in the same invocation.
C3_FallbackCalledOnce ==
    \A c \in Calls :
        (ProviderDone(c) /\ PrimaryRaised(c)) => c.groq_calls = 1

\* C4: a Gemini answer outside the score contract ends the invocation with
\* ScoringMalformed, without a Groq call and without a row written.
C4_InvalidResponseIsMalformed ==
    \A c \in Calls :
        (Settled(c) /\ \E b \in c.behaviour : b.kind = "text" /\ ~InContract(b)) =>
            /\ c.state = "raised"
            /\ c.code \in ScoringMalformed
            /\ c.groq_calls = 0
            /\ c.upserted = {}

\* C5: when Gemini is rate limited and Groq would answer, the invocation
\* upserts Groq's output and returns it tagged not cached.
C5_FallbackOutputCached ==
    \A c \in Calls :
        (Settled(c) /\ PrimaryRateLimited(c) /\ FallbackWouldSucceed(c)) =>
            /\ c.state = "returned"
            /\ \E g \in c.groq, row \in c.upserted, m \in c.ret :
                    /\ row.match_percent = GroqAnalyzeMatch(g).value.match_percent
                    /\ row.body = GroqAnalyzeMatch(g).value.body
                    /\ m.match_percent = row.match_percent
                    /\ m.body = row.body
                    /\ ~m.cached

\* C6: when Gemini raises and no fallback answer is obtained, the invocation
\* ends with ScoringUnavailable, writes nothing, and the rows of its key are
\* the rows the key had at its lookup.
C6_BothFailNoWrite ==
    \A r \in Requests :
        LET rq == req[r]
            n == Len(rq.calls)
        IN (/\ rq.pc = "done"
            /\ n > 0
            /\ PrimaryRaised(rq.calls[n])
            /\ ~FallbackWouldSucceed(rq.calls[n])) =>
                /\ rq.calls[n].state = "raised"
                /\ rq.calls[n].code \in ScoringUnavailable
                /\ rq.status = rq.calls[n].code
                /\ rq.calls[n].upserted = {}
                /\ RowsOf(matches, rq.calls[n].student_id, rq.calls[n].vacancy_id)
                      = rq.calls[n].before

\* a stale row survives an invocation in which Gemini was rate limited and
\* the fallback failed
C6_Witness ==
    \E r \in Requests :
        LET rq == req[r]
            n == Len(rq.calls)
        IN /\ rq.pc = "done"
           /\ n > 0
           /\ PrimaryRateLimited(rq.calls[n])
           /\ ~FallbackWouldSucceed(rq.calls[n])
           /\ rq.status = 429
           /\ rq.calls[n].before # {}
           /\ RowsOf(matches, rq.calls[n].student_id, rq.calls[n].vacancy_id)
                 = rq.calls[n].before

\* C7: every row of matches has a match_percent in 0..100.
C7_StoredScoreInRange ==
    \A row \in matches : row.match_percent >= 0 /\ row.match_percent <= 100

\* C8: an answer whose match_percent is out of 0..100 or not an integer is
\* never a successful result of _sync_analyze_match.
C8_AdapterRejectsOutOfContract ==
    \A r \in Requests :
        LET rq == req[r]
            n == Len(rq.calls)
        IN (/\ rq.pc = "ready"
            /\ \E b \in rq.calls[n].behaviour :
                    /\ b.kind = "text"
                    /\ b.json = "object"
                    /\ b.match_percent.t \in {"int", "float"}
                    /\ ~InContract(b)) =>
                ~rq.pending.ok

\* C9: an answer without match_percent ends the invocation with
\* ScoringMalformed; no score is returned and no row is written for it.
C9_MissingPercentIsMalformed ==
    \A c \in Calls :
        (Settled(c) /\ \E b \in c.behaviour :
                            b.kind = "text" /\ b.json = "object"
                            /\ b.match_percent.t = "missing") =>
            /\ c.state = "raised"
            /\ c.code \in ScoringMalformed
            /\ c.ret = {}
            /\ c.upserted = {}

\* C10: matches holds at most one row per (student_id, vacancy_id).
C10_OneRowPerKey ==
    \A x \in matches, y \in matches :
        (x.student_id = y.student_id /\ x.vacancy_id = y.vacancy_id) => x = y

\* two invocations have written different rows for one key, and one is left
C10_Witness ==
    \E c \in Calls, d \in Calls :
        /\ c.student_id = d.student_id
        /\ c.vacancy_id = d.vacancy_id
        /\ c.upserted # {}
        /\ d.upserted # {}
        /\ c.upserted # d.upserted
        /\ Cardinality(RowsOf(matches, c.student_id, c.vacancy_id)) = 1

\* the rows an invocation of the current requests could upsert now, and the
\* rows already stored
ScoreRecords ==
    { [student_id |-> c.student_id, vacancy_id |-> c.vacancy_id,
       match_percent |-> p, body |-> "A", cached_at |-> now] :
          c \in Calls, p \in {0, 60, 135} } \cup matches

\* C11: upserting a row twice into the table leaves what upserting it once
\* leaves, and then the row is the only row of its key.
C11_UpsertIdempotent ==
    \A row \in ScoreRecords :
        LET once == Upsert(matches, row)
            twice == Upsert(once, row)
        IN /\ twice = once
           /\ RowsOf(once, row.student_id, row.vacancy_id) = {row}

\* two invocations of different requests have upserted the same row, and the
\* table holds it once
C11_Witness ==
    \E r1 \in Requests, r2 \in Requests :
        /\ r1 # r2
        /\ \E i \in 1..Len(req[r1].calls), j \in 1..Len(req[r2].calls) :
              LET c == req[r1].calls[i]
                  d == req[r2].calls[j]
              IN /\ c.upserted # {}
                 /\ c.upserted = d.upserted
                 /\ RowsOf(matches, c.student_id, c.vacancy_id) = c.upserted

\* the id of the fetched row an entry of a ranking was computed for
EntryId(rq, e) == IF rq.kind = "student" THEN e.vacancy_id ELSE e.student_id

\* the position of an entry's row in the order the rows were fetched
FetchPos(rq, e) == CHOOSE i \in 1..Len(rq.items) : rq.items[i] = EntryId(rq, e)

\* C12: the list a ranking call returns is in non-increasing match_percent,
\* and entries of equal match_percent are in the order their rows were fetched.
C12_SortedStable ==
    \A r \in Requests :
        LET rq == req[r]
        IN (rq.pc = "done" /\ rq.status = 200) =>
              \A i \in 1..Len(rq.response), j \in 1..Len(rq.response) :
                  i < j =>
                     /\ rq.response[i].match_percent >= rq.response[j].match_percent
                     /\ rq.response[i].match_percent = rq.response[j].match_percent
                           => FetchPos(rq, rq.response[i]) < FetchPos(rq, rq.response[j])

\* a ranking returned two entries of equal match_percent
C12_Witness ==
    \E r \in Requests :
        LET rq == req[r]
        IN /\ rq.pc = "done"
           /\ rq.status = 200
           /\ Len(rq.response) = 2
           /\ rq.response[1].match_percent = rq.response[2].match_percent
           /\ FetchPos(rq, rq.response[1]) = 1

\* C13: get_matches_for_student called with limit L returns at most L
\* entries, and the L highest-ranked ones when at least L vacancies were scored.
C13_AtMostLimitEntries ==
    \A r \in Requests :
        LET rq == req[r]
        IN (rq.kind = "student" /\ rq.pc = "done" /\ rq.status = 200) =>
              /\ Len(rq.response) <= rq.asked
              /\ Len(rq.results) >= rq.asked =>
                    rq.response = SubSeq(SortDesc(rq.results), 1, rq.asked)

\* C14: whatever integer limit the caller passes, a ranking in either
\* direction returns at most MAX_LIMIT entries.
C14_AtMostCapEntries ==
    \A r \in Requests :
        (req[r].pc = "done" /\ req[r].status = 200) => Len(req[r].response) <= MAX_LIMIT

\* the rows of the key, as the invocation found them, that pass the test
\* now - cached_at <= match_cache_hours made at the time of the lookup
FreshAtLookup(c) == { row \in c.before : c.at - row.cached_at <= match_cache_hours }

\* C15: the lookup of an invocation yields exactly the rows of its key with
\* now - cached_at <= match_cache_hours; when there is one the invocation
\* ends without a provider call, when there is none it goes to Gemini.
C15_FreshnessDecision ==
    \A c \in Calls :
        /\ c.found = FreshAtLookup(c)
        /\ FreshAtLookup(c) # {} =>
              /\ Settled(c)
              /\ c.gemini_calls = 0
              /\ c.groq_calls = 0
        /\ FreshAtLookup(c) = {} =>
              \/ c.state = "await"
              \/ c.gemini_calls = 1

\* a row exactly match_cache_hours old is served from the table
C15_Witness ==
    \E c \in Calls :
        /\ \E row \in c.found : c.at - row.cached_at = match_cache_hours
        /\ c.state = "returned"
        /\ c.gemini_calls = 0
        /\ \E m \in c.ret : m.cached

\* profile_completion of a student row
ProfileCompletion(student_id) ==
    LET i == CHOOSE k \in 1..Len(student_profiles) : student_profiles[k].id = student_id
    IN student_profiles[i].profile_completion

\* C16: get_candidates_for_vacancy iterates over exactly the students whose
\* profile_completion is at least MIN_PROFILE_COMPLETION: no invocation (so
\* no lookup, provider call or write) and no entry of the result is for
\* another student.
C16_OnlyCompleteStudents ==
    \A r \in Requests :
        LET rq == req[r]
        IN (rq.kind = "vacancy" /\ rq.status # 404) =>
              /\ { rq.items[i] : i \in 1..Len(rq.items) }
                    = { student_profiles[k].id : k \in
                          { k \in 1..Len(student_profiles) :
                              student_profiles[k].profile_completion >= MIN_PROFILE_COMPLETION } }
              /\ \A i \in 1..Len(rq.calls) :
                    ProfileCompletion(rq.calls[i].student_id) >= MIN_PROFILE_COMPLETION
              /\ \A i \in 1..Len(rq.response) :
                    ProfileCompletion(rq.response[i].student_id) >= MIN_PROFILE_COMPLETION
              /\ rq.status = 200 =>
                    { rq.calls[i].student_id : i \in 1..Len(rq.calls) }
                      = { rq.items[i] : i \in 1..Len(rq.items) }

\* a candidates ranking scored and returned the student whose
\* profile_completion is exactly the threshold, and no student below it
C16_Witness ==
    \E r \in Requests :
        LET rq == req[r]
        IN /\ rq.kind = "vacancy"
           /\ rq.status = 200
           /\ \E i \in 1..Len(rq.calls) :
                 /\ ProfileCompletion(rq.calls[i].student_id) = MIN_PROFILE_COMPLETION
                 /\ rq.calls[i].upserted # {}
           /\ \E i \in 1..Len(rq.response) :
                 ProfileCompletion(rq.response[i].student_id) = MIN_PROFILE_COMPLETION
           /\ \E k \in 1..Len(student_profiles) :
                 /\ student_profiles[k].profile_completion < MIN_PROFILE_COMPLETION
                 /\ \A row \in matches : row.student_id # student_profiles[k].id

\* the request names a student or a vacancy that has no row
TargetMissing(rq) ==
    \/ /\ rq.kind = "student"
       /\ \A k \in 1..Len(student_profiles) : student_profiles[k].id # rq.target
    \/ /\ rq.kind = "vacancy"
       /\ \A k \in 1..Len(vacancies) : vacancies[k].id # rq.target

\* C17: a ranking call for a student or vacancy that does not exist ends with
\* 404 in the step that starts it, with no invocation of _get_or_compute_match
\* (no lookup, no provider call, no write) and with matches as it was.
C17_NotFoundTouchesNothing ==
    [][ \A r \in Requests :
          (req'[r] # req[r] /\ TargetMissing(req'[r])) =>
              /\ req'[r].pc = "done"
              /\ req'[r].status = 404
              /\ req'[r].calls = <<>>
              /\ req'[r].response = <<>>
              /\ matches' = matches ]_vars

\* a ranking call ended with 404 over a table that holds rows
C17_Witness ==
    \E r \in Requests :
        /\ TargetMissing(req[r])
        /\ req[r].status = 404
        /\ req[r].calls = <<>>
        /\ matches # {}

\* C18: when an invocation of _get_or_compute_match raises, it is the last
\* one of its ranking call, the call ends with that error and an empty
\* result, and the rows the earlier invocations of the call upserted are
\* still in matches.
C18_FailureAbortsRanking ==
    \A r \in Requests :
        LET rq == req[r]
        IN \A i \in 1..Len(rq.calls) :
              rq.calls[i].state = "raised" =>
                  /\ i = Len(rq.calls)
                  /\ rq.pc = "done"
                  /\ rq.status = rq.calls[i].code
                  /\ rq.status # 200
                  /\ rq.response = <<>>
                  /\ \A j \in 1..(i - 1) : rq.calls[j].upserted \subseteq matches

\* the second pair of a ranking call failed after the first pair's row was
\* written
C18_Witness ==
    \E r \in Requests :
        LET rq == req[r]
        IN /\ Len(rq.calls) = 2
           /\ rq.calls[2].state = "raised"
           /\ rq.calls[2].code \in ScoringUnavailable
           /\ rq.calls[1].upserted # {}
           /\ rq.calls[1].upserted \subseteq matches
           /\ rq.status = rq.calls[2].code
           /\ rq.response = <<>>

\* C19: invocations for one key are not serialised.  Each one that found no
\* fresh row makes its own Gemini call, and when it resumes with a result its
\* row becomes the row of the key whatever another invocation wrote in the
\* meantime, and it returns that result (tagged not cached) when MatchResult
\* accepts it.
C19_LastWriteWins ==
    [][ \A r \in Requests :
          (req[r].pc = "ready" /\ req[r].pending.ok /\ req'[r] # req[r]) =>
              LET n == Len(req[r].calls)
                  c == req'[r].calls[n]
                  v == req[r].pending.value
              IN /\ c.gemini_calls = 1
                 /\ c.upserted # {}
                 /\ \A row \in c.upserted : row.match_percent = v.match_percent
                                              /\ row.body = v.body
                 /\ RowsOf(matches', c.student_id, c.vacancy_id) = c.upserted
                 /\ (v.match_percent >= 0 /\ v.match_percent <= 100) =>
                       /\ c.state = "returned"
                       /\ \E m \in c.ret : /\ m.match_percent = v.match_percent
                                             /\ m.body = v.body
                                             /\ ~m.cached ]_vars

\* two invocations of different requests found the key without a row, each
\* called Gemini once and returned its own score, and the row left is the
\* second one's
C19_Witness ==
    \E r1 \in Requests, r2 \in Requests :
        /\ r1 # r2
        /\ \E i \in 1..Len(req[r1].calls), j \in 1..Len(req[r2].calls) :
              LET c == req[r1].calls[i]
                  d == req[r2].calls[j]
              IN /\ c.student_id = d.student_id
                 /\ c.vacancy_id = d.vacancy_id
                 /\ c.before = {}
                 /\ d.before = {}
                 /\ c.gemini_calls = 1
                 /\ d.gemini_calls = 1
                 /\ c.state = "returned"
                 /\ d.state = "returned"
                 /\ \E m \in c.ret, k \in d.ret : m.match_percent # k.match_percent
                 /\ RowsOf(matches, c.student_id, c.vacancy_id) = d.upserted

\* C20: a step changes rows of matches only for the key of an invocation
\* that resumes with a provider result; lookups, hits, failed invocations and
\* the rows of every other key leave matches as it is.
C20_WritesOwnKeyOnly ==
    [][ \A x \in (matches \ matches') \cup (matches' \ matches) :
          \E r \in Requests :
              /\ req[r].pc = "ready"
              /\ req[r].pending.ok
              /\ req'[r] # req[r]
              /\ x.student_id = req[r].calls[Len(req[r].calls)].student_id
              /\ x.vacancy_id = req[r].calls[Len(req[r].calls)].vacancy_id ]_vars

\* an invocation has replaced the row of its key, and an older row of
\* another key is still in matches
C20_Witness ==
    \E c \in Calls :
        /\ c.before # {}
        /\ c.upserted # {}
        /\ c.upserted # c.before
        /\ c.upserted \subseteq matches
        /\ \E row \in matches :
              /\ row.student_id = c.student_id
              /\ row.vacancy_id # c.vacancy_id
              /\ row.cached_at < c.at

\* the Gemini calls the invocations of a request have made
RECURSIVE GeminiCallsOf(_)
GeminiCallsOf(calls) ==
    IF calls = <<>> THEN 0
    ELSE calls[Len(calls)].gemini_calls + GeminiCallsOf(SubSeq(calls, 1, Len(calls) - 1))

\* C23: a ranking call in either direction makes at most VACANCY_PAGE
\* invocations of _get_or_compute_match and at most VACANCY_PAGE Gemini calls.
C23_FanOutWithinPage ==
    \A r \in Requests :
        /\ Len(req[r].items) <= VACANCY_PAGE
        /\ Len(req[r].calls) <= VACANCY_PAGE
        /\ GeminiCallsOf(req[r].calls) <= VACANCY_PAGE

\* C21: only a ranking call that resumes with a provider result changes
\* matches, the other routes leave it as it is, and a step of a ranking call
\* leaves student_profiles and vacancies as they are.
C21_SoleWriter ==
    [][ /\ matches' # matches =>
              \E r \in Requests : req[r].pc = "ready" /\ req'[r] # req[r]
        /\ (student_profiles' # student_profiles \/ vacancies' # vacancies
            \/ skill_history' # skill_history \/ reply' # reply) =>
              matches' = matches
        /\ (\E r \in Requests : req'[r] # req[r]) =>
              /\ student_profiles' = student_profiles
              /\ vacancies' = vacancies ]_vars

\* matches holds a row of a vacancy that was deactivated later, next to a
\* profile that was edited, and the last route to answer was not a ranking
C21_Witness ==
    /\ \E row \in matches, k \in 1..Len(vacancies) :
          /\ row.vacancy_id = vacancies[k].id
          /\ vacancies[k].id = "v2"
          /\ ~vacancies[k].is_active
    /\ student_profiles # FewStudents
    /\ reply.op = "update_vacancy"

\* C22: a row of matches is replaced or removed only when it is older than
\* match_cache_hours at that moment.
C22_FreshNeverOverwritten ==
    [][ \A x \in matches \ matches' : now - x.cached_at > match_cache_hours ]_vars

\* C22, amended: an invocation upserts only when its own lookup found no row
\* of the key within match_cache_hours (the key had no row then, or an older
\* one); what another invocation wrote after that lookup is overwritten.
C22_OverwriteOnlyAfterStaleLookup ==
    \A c \in Calls : c.upserted # {} => FreshAtLookup(c) = {}

\* an invocation whose lookup found nothing has replaced the row another
\* invocation had written for the key less than match_cache_hours before
C22_Witness ==
    \E c \in Calls, d \in Calls :
        /\ c.student_id = d.student_id
        /\ c.vacancy_id = d.vacancy_id
        /\ FreshAtLookup(d) = {}
        /\ c.upserted # d.upserted
        /\ d.upserted = RowsOf(matches, d.student_id, d.vacancy_id)
        /\ \E x \in c.upserted, y \in d.upserted :
              /\ y.cached_at - x.cached_at <= match_cache_hours
              /\ y.cached_at >= x.cached_at
              /\ y.match_percent # x.match_percent

\* C24: the vacancies get_matches_for_student iterates over are active in the
\* table at the step that fetches them, and every invocation and every entry
\* of the result of the call is for one of them.
C24_OnlyActiveVacancies ==
    /\ [][ \A r \in Requests :
             (req'[r] # req[r] /\ req[r].pc \in {"idle", "done"} /\ req'[r].kind = "student") =>
                 \A i \in 1..Len(req'[r].items) :
                     \E k \in 1..Len(vacancies) :
                         /\ vacancies[k].id = req'[r].items[i]
                         /\ vacancies[k].is_active ]_vars
    /\ [](\A r \in Requests :
             req[r].kind = "student" =>
                 /\ \A i \in 1..Len(req[r].calls) :
                       \E j \in 1..Len(req[r].items) :
                           req[r].calls[i].vacancy_id = req[r].items[j]
                 /\ \A i \in 1..Len(req[r].response) :
                       \E j \in 1..Len(req[r].items) :
                           req[r].response[i].vacancy_id = req[r].items[j])

\* a ranking for s1 made after v2 was deactivated and v4 created has scored
\* v1 and v4 and returned them, while matches still holds a row of v2
C24_Witness ==
    \E r \in Requests :
        /\ req[r].kind = "student"
        /\ req[r].status = 200
        /\ req[r].items = <<"v1", "v4">>
        /\ Len(req[r].response) = 2
        /\ \E k \in 1..Len(vacancies) : vacancies[k].id = "v2" /\ ~vacancies[k].is_active
        /\ \E row \in matches : row.vacancy_id = "v2"

\* C25: the step that cancels a ranking call leaves matches as it is and the
\* call without a result; the pair that was awaiting its provider call has
\* the rows it had at its lookup, and the rows the earlier invocations of
\* the call upserted are in matches.
C25_CancelWritesNothing ==
    /\ [][ \A r \in Requests :
             (req[r].pc \in {"await", "ready"} /\ req'[r].pc = "done"
                /\ req'[r].calls[Len(req'[r].calls)].state = "cancelled") =>
                 /\ matches' = matches
                 /\ req'[r].response = <<>>
                 /\ req'[r].status # 200 ]_vars
    /\ [](\A r \in Requests :
             LET rq == req[r]
                 n == Len(rq.calls)
             IN (n > 0 /\ rq.calls[n].state = "cancelled") =>
                   /\ rq.pc = "done"
                   /\ rq.response = <<>>
                   /\ rq.calls[n].upserted = {}
                   /\ RowsOf(matches, rq.calls[n].student_id, rq.calls[n].vacancy_id)
                         = rq.calls[n].before
                   /\ \A j \in 1..(n - 1) : rq.calls[j].upserted \subseteq matches)

\* a ranking call was cancelled after Gemini had answered for its second
\* pair: the first pair's row is in matches, the second pair has none
C25_Witness ==
    \E r \in Requests :
        LET rq == req[r]
        IN /\ Len(rq.calls) = 2
           /\ rq.calls[2].state = "cancelled"
           /\ rq.calls[2].gemini_calls = 1
           /\ rq.pending.ok
           /\ rq.calls[1].upserted # {}
           /\ rq.calls[1].upserted \subseteq matches
           /\ RowsOf(matches, rq.calls[2].student_id, rq.calls[2].vacancy_id) = {}
           /\ rq.response = <<>>

\* C26: an invocation whose lookup or upsert on matches raises ends the
\* ranking call with an error: it returns no score, leaves the rows of its
\* key as they were at its lookup, has called Gemini once at most (once when
\* it is the upsert that raised), and no invocation follows it.
C26_StoreFailurePropagates ==
    \A r \in Requests :
        LET rq == req[r]
        IN \A i \in 1..Len(rq.calls) :
              rq.calls[i].store_error # "none" =>
                  /\ i = Len(rq.calls)
                  /\ rq.pc = "done"
                  /\ rq.status = 500
                  /\ rq.response = <<>>
                  /\ rq.calls[i].state = "raised"
                  /\ rq.calls[i].ret = {}
                  /\ rq.calls[i].upserted = {}
                  /\ rq.calls[i].gemini_calls
                        = (IF rq.calls[i].store_error = "upsert" THEN 1 ELSE 0)
                  /\ RowsOf(matches, rq.calls[i].student_id, rq.calls[i].vacancy_id)
                        = rq.calls[i].before

\* the upsert of a score Gemini had computed raised: the call ended with an
\* error and the key has no row
C26_Witness ==
    \E r \in Requests :
        LET rq == req[r]
            n == Len(rq.calls)
        IN /\ n > 0
           /\ rq.calls[n].store_error = "upsert"
           /\ rq.pending.ok
           /\ rq.calls[n].gemini_calls = 1
           /\ rq.status = 500
           /\ RowsOf(matches, rq.calls[n].student_id, rq.calls[n].vacancy_id) = {}

\* C27: a profile save whose skill_history insert raised still answers 200
\* with the saved row, and every other operation one of whose steps failed
\* (an SDK call, a parse, a table write) answers with an error status.
C27_OnlySnapshotSwallowed ==
    /\ reply.failed = {"skill_history"} => (reply.status = 200 /\ reply.data # {})
    /\ (reply.failed # {} /\ reply.failed # {"skill_history"}) => reply.status >= 400

\* C28: every row of student_profiles has a profile_completion in 0..100 that
\* equals calculate_profile_completion of the attributes of that row.
C28_CompletionDerived ==
    \A k \in 1..Len(student_profiles) :
        /\ student_profiles[k].profile_completion >= 0
        /\ student_profiles[k].profile_completion <= 100
        /\ student_profiles[k].profile_completion
              = calculate_profile_completion(student_profiles[k])

\* C29: when the last invocation of a ranking call raised and its key had
\* only a row older than match_cache_hours at its lookup, the key still has
\* exactly that row and the call ended with the invocation's error; and an
\* invocation that found no fresh row never returns a result tagged cached.
C29_StaleRowKeptOnFailure ==
    /\ \A r \in Requests :
          LET rq == req[r]
              n == Len(rq.calls)
          IN (/\ rq.pc = "done"
              /\ n > 0
              /\ rq.calls[n].state = "raised"
              /\ rq.calls[n].before # {}
              /\ FreshAtLookup(rq.calls[n]) = {}) =>
                  /\ RowsOf(matches, rq.calls[n].student_id, rq.calls[n].vacancy_id)
                        = rq.calls[n].before
                  /\ rq.status = rq.calls[n].code
                  /\ rq.calls[n].ret = {}
    /\ \A c \in Calls : FreshAtLookup(c) = {} => \A m \in c.ret : ~m.cached

\* C30: an invocation served from the table upserts nothing and leaves the
\* row of its key, cached_at included, as it found it; and an invocation
\* that finds only a row older than match_cache_hours goes to Gemini.
C30_HitWritesNothing ==
    \A c \in Calls :
        /\ c.found # {} =>
              /\ c.upserted = {}
              /\ RowsOf(matches, c.student_id, c.vacancy_id) = c.before
        /\ (c.before # {} /\ \A row \in c.before : c.at - row.cached_at > match_cache_hours) =>
              /\ c.found = {}
              /\ c.state = "await" \/ c.gemini_calls = 1

\* a row was served from the table some hours after it was written, and it
\* still carries the time it was written
C30_Witness ==
    \E c \in Calls :
        /\ c.state = "returned"
        /\ c.found # {}
        /\ \E row \in RowsOf(matches, c.student_id, c.vacancy_id) :
              /\ row \in c.found
              /\ row.cached_at < c.at
              /\ row.cached_at < now

\* C31: per key the table is monotonic.  A key that has a row before a step
\* has a row after it, and the cached_at of the row after the step is not
\* earlier than the one before, whichever invocation wrote it and in
\* whatever order the provider calls of concurrent invocations completed.
C31_KeyMonotonic ==
    [][ \A row \in matches :
          \E later \in matches' :
              /\ later.student_id = row.student_id
              /\ later.vacancy_id = row.vacancy_id
              /\ later.cached_at >= row.cached_at ]_vars

\* the first request looked its key up first, the second request wrote the
\* key first, and the first request's later row is the one left
C31_Witness ==
    \E i \in 1..Len(req[1].calls), j \in 1..Len(req[2].calls) :
        LET c == req[1].calls[i]
            d == req[2].calls[j]
        IN /\ c.student_id = d.student_id
           /\ c.vacancy_id = d.vacancy_id
           /\ c.at <= d.at
           /\ c.upserted # {}
           /\ d.upserted # {}
           /\ \E x \in c.upserted, y \in d.upserted : y.cached_at < x.cached_at
           /\ RowsOf(matches, c.student_id, c.vacancy_id) = c.upserted

\* C32: a lookup that finds a fresh row returns a result, never an error,
\* and every row of matches would be accepted by MatchResult when it is read
\* back as a hit.
C32_FreshHitNeverFails ==
    /\ \A c \in Calls : (c.found # {} /\ Settled(c)) => c.code = 200
    /\ \A row \in matches :
          MatchResult(row.vacancy_id,
                      [match_percent |-> row.match_percent, body |-> row.body],
                      TRUE, row.cached_at).ok

\* the rows of the pairs of a ranking call are all within the window now
StillFresh(rq) ==
    \A i \in 1..Len(rq.items) :
        \E row \in RowsOf(matches, StudentOf(rq, rq.items[i]), VacancyOf(rq, rq.items[i])) :
            now - row.cached_at <= match_cache_hours

\* C33: when get_matches_for_student has succeeded, each vacancy it fetched
\* has a row for the student, the one its invocation found fresh or wrote.
\* A call for the same student with the same limit, made while those rows
\* are within the window, ends without suspending at Gemini, leaves matches
\* as it is, and answers the same vacancies in the same order with the same
\* scores, each tagged cached.
C33_RepeatServedFromCache ==
    /\ [][ ( /\ req[1].pc = "done"
             /\ req[1].status = 200
             /\ req[1].kind = "student"
             /\ started' = started + 1
             /\ req'[1].kind = "student"
             /\ req'[1].target = req[1].target
             /\ req'[1].asked = req[1].asked
             /\ StillFresh(req[1]) )
           => /\ req'[1].pc = "done"
              /\ req'[1].status = 200
              /\ matches' = matches
              /\ req'[1].items = req[1].items
              /\ \A i \in 1..Len(req'[1].calls) :
                    /\ req'[1].calls[i].found # {}
                    /\ req'[1].calls[i].gemini_calls = 0
                    /\ req'[1].calls[i].groq_calls = 0
              /\ Len(req'[1].response) = Len(req[1].response)
              /\ \A i \in 1..Len(req[1].response) :
                    /\ req'[1].response[i].vacancy_id = req[1].response[i].vacancy_id
                    /\ req'[1].response[i].match_percent = req[1].response[i].match_percent
                    /\ req'[1].response[i].body = req[1].response[i].body
                    /\ req'[1].response[i].cached ]_vars
    /\ [](\A r \in Requests :
            (req[r].pc = "done" /\ req[r].status = 200 /\ req[r].kind = "student") =>
                /\ Len(req[r].calls) = Len(req[r].items)
                /\ \A i \in 1..Len(req[r].calls) :
                      LET c == req[r].calls[i]
                      IN /\ c.vacancy_id = req[r].items[i]
                         /\ \E row \in RowsOf(matches, c.student_id, c.vacancy_id) :
                               /\ row \in c.found \cup c.upserted
                               /\ c.at - row.cached_at <= match_cache_hours)

\* the second ranking call for s1 was answered from the rows the first one
\* had computed and written
C33_Witness ==
    /\ started = 2
    /\ req[1].pc = "done"
    /\ req[1].status = 200
    /\ req[1].kind = "student"
    /\ Len(req[1].response) > 0
    /\ \A i \in 1..Len(req[1].calls) :
          /\ req[1].calls[i].found # {}
          /\ req[1].calls[i].gemini_calls = 0
    /\ \A i \in 1..Len(req[1].response) : req[1].response[i].cached

\* the rows a ranking call of this kind fetches from the tables as they are
Fetched(rq) ==
    IF rq.kind = "student" THEN Ids(ActiveVacancies) ELSE Ids(CompleteStudents)

\* C34: the limit is applied after the loop.  Whatever the limit, a ranking
\* call that has answered has run one invocation for every row it fetched,
\* in fetch order, each one a hit or one Gemini call followed by the upsert
\* of its row; the answer is the first entries of the sorted list of all the
\* results, so the limit decides its length and nothing else.
C34_TruncationAfterComputation ==
    \A r \in Requests :
        (req[r].pc = "done" /\ req[r].status = 200) =>
            /\ req[r].items = Fetched(req[r])
            /\ Len(req[r].calls) = Len(req[r].items)
            /\ Len(req[r].results) = Len(req[r].items)
            /\ \A i \in 1..Len(req[r].calls) :
                  LET c == req[r].calls[i]
                  IN /\ c.student_id = StudentOf(req[r], req[r].items[i])
                     /\ c.vacancy_id = VacancyOf(req[r], req[r].items[i])
                     /\ \/ c.found # {} /\ c.gemini_calls = 0 /\ c.upserted = {}
                        \/ c.found = {} /\ c.gemini_calls = 1 /\ c.upserted # {}
            /\ Len(req[r].response) = Len(PySliceTo(req[r].items, req[r].limit))
            /\ req[r].response = SubSeq(SortDesc(req[r].results), 1, Len(req[r].response))

\* a ranking call with limit 1 over two fetched rows called Gemini for both,
\* wrote both rows and answered one entry
C34_Witness ==
    \E r \in Requests :
        /\ req[r].pc = "done"
        /\ req[r].status = 200
        /\ req[r].asked = 1
        /\ Len(req[r].items) = 2
        /\ Len(req[r].response) = 1
        /\ \A i \in 1..Len(req[r].calls) :
              /\ req[r].calls[i].gemini_calls = 1
              /\ req[r].calls[i].upserted \subseteq matches
              /\ req[r].calls[i].upserted # {}

\* C35: the cached tag is exact.  A result an invocation returns is tagged
\* cached exactly when the invocation called neither Gemini nor Groq, and a
\* result tagged not cached is the score and the fields of the row the
\* invocation upserted before it returned.
C35_CachedTagExact ==
    \A c \in Calls :
        c.state = "returned" =>
            /\ c.ret # {}
            /\ \A m \in c.ret :
                  /\ m.cached <=> (c.gemini_calls = 0 /\ c.groq_calls = 0)
                  /\ ~m.cached =>
                        /\ c.upserted # {}
                        /\ \A row \in c.upserted :
                              /\ row.student_id = c.student_id
                              /\ row.vacancy_id = c.vacancy_id
                              /\ row.match_percent = m.match_percent
                              /\ row.body = m.body

\* one ranking call returned a pair from the table, tagged cached, and
\* computed, stored and returned the next one, tagged not cached
C35_Witness ==
    \E r \in Requests :
        \E i \in 1..Len(req[r].calls), j \in 1..Len(req[r].calls) :
            LET c == req[r].calls[i]
                d == req[r].calls[j]
            IN /\ c.state = "returned"
               /\ d.state = "returned"
               /\ c.gemini_calls = 0
               /\ \E m \in c.ret : m.cached
               /\ d.gemini_calls = 1
               /\ \E m \in d.ret : ~m.cached
               /\ d.upserted # {}
               /\ d.upserted \subseteq matches

\* C36: rows of matches are invalidated by time only.  An edit of a student
\* or of a vacancy leaves matches as it is; an invocation that finds a row
\* within the window returns the score of that row with no Gemini call,
\* whatever the student attributes are by then; and an invocation returns a
\* score computed from the attributes its ranking call fetched only when its
\* lookup found no row, or only rows older than the window.
C36_InvalidatedByTimeOnly ==
    /\ [][ (student_profiles' # student_profiles \/ vacancies' # vacancies)
             => matches' = matches ]_vars
    /\ [](\A r \in Requests : \A i \in 1..Len(req[r].calls) :
            LET c == req[r].calls[i]
            IN /\ (c.found # {} /\ Settled(c)) =>
                     /\ c.gemini_calls = 0
                     /\ \E row \in c.found, m \in c.ret :
                           /\ m.cached
                           /\ m.match_percent = row.match_percent
               /\ (c.state = "returned" /\ c.gemini_calls > 0) =>
                     /\ \A row \in c.before : c.at - row.cached_at > match_cache_hours
                     /\ \A m \in c.ret : m.match_percent = ScoreOf(req[r].payloads[i]))

\* a profile was edited after its row of matches was written: a ranking
\* call that fetched the edited attributes was answered, inside the window,
\* with the score of the attributes as they were before
C36_Witness ==
    \E r \in Requests : \E i \in 1..Len(req[r].calls) :
        LET c == req[r].calls[i]
        IN /\ c.state = "returned"
           /\ c.found # {}
           /\ c.gemini_calls = 0
           /\ \E m \in c.ret : m.cached /\ m.match_percent # ScoreOf(req[r].payloads[i])

\* C37: under fairness every ranking call that is suspended at a provider
\* call ends with a list or an error, so no invocation stays computing for
\* ever; an invocation that resumes with a result leaves its row, stamped
\* now, as the row of its key, and one that ends in an error leaves the rows
\* of its key as they were.
C37_EveryInvocationTerminates ==
    /\ \A r \in Requests : (req[r].pc \in {"await", "ready"}) ~> (req[r].pc = "done")
    /\ [][ \A r \in Requests :
             (req[r].pc = "ready" /\ req'[r] # req[r]) =>
                 LET n == Len(req[r].calls)
                     c == req'[r].calls[n]
                 IN /\ Settled(c)
                    /\ c.state = "returned" =>
                          /\ c.upserted # {}
                          /\ \A row \in c.upserted : row.cached_at = now
                          /\ RowsOf(matches', c.student_id, c.vacancy_id) = c.upserted
                    /\ c.state = "raised" =>
                          RowsOf(matches', c.student_id, c.vacancy_id)
                              = RowsOf(matches, c.student_id, c.vacancy_id) ]_vars

====
